---------------------------- MODULE Spec2Model ----------------------------
(***************************************************************************)
(* Model of the asynchronous bulk-import job lifecycle of web-axum:        *)
(* upload_handler (parse, Task::new, build_task, tokio::spawn of the       *)
(* worker), the spawned worker loop, and show_task_handler, all sharing    *)
(* one Arc<Mutex<AppState>> that holds the task map and the store pool.    *)
(*                                                                         *)
(* Abstractions.                                                           *)
(*  - A Record is represented by its row number in the uploaded sheet. The  *)
(*    `domain` table has no column linking a row to a job, so its rows are *)
(*    kept grouped by the upload whose worker inserted them, each group in *)
(*    insertion order.                                                     *)
(*  - Uuid::new_v4() is a choice among the ids not yet in the task map.    *)
(*  - The runtime is tokio's default multi-thread runtime (#[tokio::main]),*)
(*    so every unit of work (handler, spawned worker) advances on its own. *)
(*  - tokio::sync::Mutex has no poisoning: a panic while the guard is      *)
(*    alive drops the guard during unwinding and frees the lock.           *)
(*  - u32 arithmetic never wraps here: a sheet has far fewer than 2^32     *)
(*    rows, so `total as u32` and `num + 1` are exact.                     *)
(***************************************************************************)
EXTENDS Integers, Sequences, FiniteSets, TLC

\* Number of upload requests (each has at most one job and one worker).
MaxUploads == 2
\* Largest number of records the parser returns for one upload.
MaxRecords == 2

Uploads == 1..MaxUploads
\* The ids Uuid::new_v4 draws from.
JobIds == 1..MaxUploads

VARIABLES
    lock,     \* holder of the Mutex<AppState>
    task,     \* AppState.task : HashMap<Uuid, Task>
    store,    \* rows of the `domain` table, per inserting upload, in insertion order
    upc,      \* position of each upload_handler call
    parsed,   \* what excel_to_record produced for the upload
    data,     \* the Vec<Record> of the upload
    jid,      \* the id build_task returned to the upload
    wpc,      \* position of the worker spawned by the upload
    wi,       \* number of records data_iter has yielded
    ppc,      \* position of the show_task_handler call
    pid,      \* Path(task_id) of the show_task_handler call
    pafter,   \* the polled job's upload had returned when the poll was issued
    first,    \* per job id: the first response to a poll issued after its upload returned
    last,     \* per job id: the latest response show_task_handler gave
    cred,     \* the Authorization header the client sends with its requests
    users,    \* usernames in the `user` table
    rpc,      \* position of the register_handler call
    lpc,      \* position of the login_handler call
    sheet,    \* rows of the first sheet of a workbook given to the Record Parser
    recs      \* what the Record Parser made of `sheet`

\* The state outside the import core: the client's credential, the user
\* handlers and the Record Parser's input and output.
rest == <<cred, users, rpc, lpc, sheet, recs>>

vars == <<lock, task, store, upc, parsed, data, jid, wpc, wi, ppc, pid, pafter, first, last, rest>>

----------------------------------------------------------------------------
\* Option<T>: None is the empty sequence, Some(x) the one-element sequence.
None == <<>>
Some(x) == <<x>>

\* enum TaskStatus
Padding(n) == [tag |-> "Padding", num |-> n, err |-> ""]
Done == [tag |-> "Done", num |-> 0, err |-> ""]
Err(e) == [tag |-> "Err", num |-> 0, err |-> e]

\* Absence of a key in the HashMap.
NoTask == [title |-> "", total |-> 0, status |-> [tag |-> "Absent", num |-> 0, err |-> ""]]
NoId == 0

\* A plausible slip: counting the header row of the sheet as a record.
MutTaskNew(title, total) ==
    [title |-> title, total |-> total + 1, status |-> Padding(0)]

\* A slip that starts the progress count at one.
MutTaskNewStart(title, total) ==
    [title |-> title, total |-> total, status |-> Padding(1)]

\* A slip that takes one row off the count, as if for a header row.
MutTaskNewLess(title, total) ==
    [title |-> title, total |-> IF total > 0 THEN total - 1 ELSE 0, status |-> Padding(0)]

\* Task::new
TaskNew(title, total) ==
    [title |-> title, total |-> total, status |-> Padding(0)]

\* A plausible slip: reporting the records still to do instead of those done.
MutTaskBodyOf(t) ==
    [title    |-> t.title,
     total    |-> t.total,
     status   |-> CASE t.status.tag = "Done" -> "done"
                    [] t.status.tag = "Padding" -> "padding"
                    [] OTHER -> "error",
     progress |-> IF t.status.tag = "Padding" THEN Some(t.total - t.status.num) ELSE None,
     err_msg  |-> IF t.status.tag = "Err" THEN Some(t.status.err) ELSE None]

\* A slip that reports a finished job with its progress filled in.
MutTaskBodyDone(t) ==
    [title    |-> t.title,
     total    |-> t.total,
     status   |-> CASE t.status.tag = "Done" -> "done"
                    [] t.status.tag = "Padding" -> "padding"
                    [] OTHER -> "error",
     progress |-> CASE t.status.tag = "Padding" -> Some(t.status.num)
                    [] t.status.tag = "Done" -> Some(t.total)
                    [] OTHER -> None,
     err_msg  |-> IF t.status.tag = "Err" THEN Some(t.status.err) ELSE None]

\* The TaskBody show_task_handler builds from a Task.
TaskBodyOf(t) ==
    [title    |-> t.title,
     total    |-> t.total,
     status   |-> CASE t.status.tag = "Done" -> "done"
                    [] t.status.tag = "Padding" -> "padding"
                    [] OTHER -> "error",
     progress |-> IF t.status.tag = "Padding" THEN Some(t.status.num) ELSE None,
     err_msg  |-> IF t.status.tag = "Err" THEN Some(t.status.err) ELSE None]

\* The lock is free, or held by build_task / the worker of an upload / a poll.
Free == [kind |-> "free", who |-> 0]
Holder(k, u) == [kind |-> k, who |-> u]

\* Outcomes of excel_to_record that are not Ok(records).
ParseFailures == {"no_sheet", "parse_error", "row_panic"}

\* The rows of the store that came from upload u, in insertion order.
RowsOf(s, u) == s[u]

\* The Vec<Record> of a sheet with n data rows, in row order.
Records(n) == [i \in 1..n |-> i]

\* What a request can carry as its Authorization header.
Creds == {"valid", "invalid", "missing"}

\* impl FromRequestParts for Claims: a missing header and a token that does
\* not decode are both rejected with AuthError::InvalidToken.
ClaimsFromRequestParts(c) == IF c = "valid" THEN "Ok" ELSE "InvalidToken"

\* The handlers whose parameter list has the Claims extractor.
ClaimsHandlers == {"get_user_handler"}

\* axum runs the extractors of a handler before its body: a request gets to
\* the body of handler h unless h extracts Claims and the extractor rejects.
Admitted(h, c) == h \in ClaimsHandlers => ClaimsFromRequestParts(c) = "Ok"

\* The usernames register_handler and login_handler are called with.
Usernames == {"katte"}

----------------------------------------------------------------------------
Init ==
    /\ lock = Free
    /\ task = [i \in JobIds |-> NoTask]
    /\ store = [u \in Uploads |-> <<>>]
    /\ upc = [u \in Uploads |-> "idle"]
    /\ parsed = [u \in Uploads |-> "none"]
    /\ data = [u \in Uploads |-> <<>>]
    /\ jid = [u \in Uploads |-> NoId]
    /\ wpc = [u \in Uploads |-> "none"]
    /\ wi = [u \in Uploads |-> 0]
    /\ ppc = "idle"
    /\ pid = NoId
    /\ pafter = FALSE
    /\ first = [i \in JobIds |-> None]
    /\ last = [i \in JobIds |-> None]
    /\ cred = "valid"
    /\ users = {}
    /\ rpc = "idle"
    /\ lpc = "idle"
    /\ sheet = <<>>
    /\ recs = None

----------------------------------------------------------------------------
\* upload_handler

\* A slip that swallows the parse error and goes on with no records.
MutUploadParse(u) ==
    /\ upc[u] = "idle"
    /\ \/ \E f \in ParseFailures :
            /\ parsed' = [parsed EXCEPT ![u] = f]
            /\ upc' = [upc EXCEPT ![u] = "parsed"]
            /\ data' = data
       \/ \E n \in 0..MaxRecords :
            /\ parsed' = [parsed EXCEPT ![u] = "ok"]
            /\ data' = [data EXCEPT ![u] = Records(n)]
            /\ upc' = [upc EXCEPT ![u] = "parsed"]
    /\ UNCHANGED <<lock, task, store, jid, wpc, wi, ppc, pid, pafter, first, last, rest>>

\* Staging the file and excel_to_record(&file_path)?: an Err returns from the
\* handler through `?`, a row that does not deserialize panics in
\* record.unwrap(), Ok(data) goes on to Task::new.
UploadParse(u) ==
    /\ upc[u] = "idle"
    /\ Admitted("upload_handler", cred)
    /\ \/ \E f \in ParseFailures :
            /\ parsed' = [parsed EXCEPT ![u] = f]
            /\ upc' = [upc EXCEPT ![u] = IF f = "row_panic" THEN "panicked" ELSE "failed"]
            /\ data' = data
       \/ \E n \in 0..MaxRecords :
            /\ parsed' = [parsed EXCEPT ![u] = "ok"]
            /\ data' = [data EXCEPT ![u] = Records(n)]
            /\ upc' = [upc EXCEPT ![u] = "parsed"]
    /\ UNCHANGED <<lock, task, store, jid, wpc, wi, ppc, pid, pafter, first, last, rest>>

\* build_task: app_state.lock().await
BuildLock(u) ==
    /\ upc[u] = "parsed"
    /\ lock = Free
    /\ lock' = Holder("build", u)
    /\ upc' = [upc EXCEPT ![u] = "building"]
    /\ UNCHANGED <<task, store, parsed, data, jid, wpc, wi, ppc, pid, pafter, first, last, rest>>

\* A slip that draws the id from a source that can repeat.
MutBuildInsert(u) ==
    /\ upc[u] = "building"
    /\ lock = Holder("build", u)
    /\ \E id \in JobIds :
          /\ task' = [task EXCEPT ![id] = TaskNew("import", Len(data[u]))]
          /\ jid' = [jid EXCEPT ![u] = id]
    /\ lock' = Free
    /\ upc' = [upc EXCEPT ![u] = "built"]
    /\ UNCHANGED <<store, parsed, data, wpc, wi, ppc, pid, pafter, first, last, rest>>

\* build_task: .task.borrow_mut().insert(id, task); the guard is a temporary
\* of that statement and is dropped at its end.
\* The task is Task::new("导入数据", data.len()); the title, a fixed
\* non-ASCII literal, is written "import" here.
BuildInsert(u) ==
    /\ upc[u] = "building"
    /\ lock = Holder("build", u)
    /\ \E id \in {i \in JobIds : task[i] = NoTask} :
          /\ task' = [task EXCEPT ![id] = TaskNew("import", Len(data[u]))]
          /\ jid' = [jid EXCEPT ![u] = id]
    /\ lock' = Free
    /\ upc' = [upc EXCEPT ![u] = "built"]
    /\ UNCHANGED <<store, parsed, data, wpc, wi, ppc, pid, pafter, first, last, rest>>

\* tokio::spawn(async move { ... }): the worker exists from here on.
UploadSpawn(u) ==
    /\ upc[u] = "built"
    /\ upc' = [upc EXCEPT ![u] = "spawned"]
    /\ wpc' = [wpc EXCEPT ![u] = "loop"]
    /\ UNCHANGED <<lock, task, store, parsed, data, jid, wi, ppc, pid, pafter, first, last, rest>>

\* A slip that joins the spawned worker before answering.
MutUploadReturn(u) ==
    /\ upc[u] = "spawned"
    /\ wpc[u] \in {"exit", "panicked"}
    /\ upc' = [upc EXCEPT ![u] = "returned"]
    /\ UNCHANGED <<lock, task, store, parsed, data, jid, wpc, wi, ppc, pid, pafter, first, last, rest>>

\* return Ok(Json(response)) with the task_id.
UploadReturn(u) ==
    /\ upc[u] = "spawned"
    /\ upc' = [upc EXCEPT ![u] = "returned"]
    /\ UNCHANGED <<lock, task, store, parsed, data, jid, wpc, wi, ppc, pid, pafter, first, last, rest>>

----------------------------------------------------------------------------
\* The spawned worker

\* A slip that goes on without waiting for the lock to be free.
MutWorkerLock(u) ==
    /\ wpc[u] = "loop"
    /\ wi[u] < Len(data[u])
    /\ lock' = Holder("worker", u)
    /\ wi' = [wi EXCEPT ![u] = wi[u] + 1]
    /\ wpc' = [wpc EXCEPT ![u] = "locked"]
    /\ UNCHANGED <<task, store, upc, parsed, data, jid, ppc, pid, pafter, first, last, rest>>

\* while let Some(record) = data_iter.next() { let mut state = lock().await;
WorkerLock(u) ==
    /\ wpc[u] = "loop"
    /\ wi[u] < Len(data[u])
    /\ lock = Free
    /\ lock' = Holder("worker", u)
    /\ wi' = [wi EXCEPT ![u] = wi[u] + 1]
    /\ wpc' = [wpc EXCEPT ![u] = "locked"]
    /\ UNCHANGED <<task, store, upc, parsed, data, jid, ppc, pid, pafter, first, last, rest>>

\* data_iter.next() is None: the loop and the spawned task end.
WorkerEnd(u) ==
    /\ wpc[u] = "loop"
    /\ wi[u] = Len(data[u])
    /\ wpc' = [wpc EXCEPT ![u] = "exit"]
    /\ UNCHANGED <<lock, task, store, upc, parsed, data, jid, wi, ppc, pid, pafter, first, last, rest>>

\* A slip that ignores the insert's Result and goes on to mark progress.
MutWorkerInsert(u) ==
    /\ wpc[u] = "locked"
    /\ lock = Holder("worker", u)
    /\ \E ok \in BOOLEAN :
          /\ store' = IF ok THEN [store EXCEPT ![u] = Append(@, data[u][wi[u]])]
                      ELSE store
          /\ wpc' = [wpc EXCEPT ![u] = "inserted"]
          /\ lock' = lock
    /\ UNCHANGED <<task, upc, parsed, data, jid, wi, ppc, pid, pafter, first, last, rest>>

\* A slip that leaks the guard when the insert fails (the task ends, the
\* lock stays taken).
MutWorkerInsertLeak(u) ==
    /\ wpc[u] = "locked"
    /\ lock = Holder("worker", u)
    /\ \E ok \in BOOLEAN :
          IF ok
          THEN /\ store' = [store EXCEPT ![u] = Append(@, data[u][wi[u]])]
               /\ wpc' = [wpc EXCEPT ![u] = "inserted"]
          ELSE /\ store' = store
               /\ wpc' = [wpc EXCEPT ![u] = "panicked"]
    /\ lock' = lock
    /\ UNCHANGED <<task, upc, parsed, data, jid, wi, ppc, pid, pafter, first, last, rest>>

\* insert_excel_record(&state.pool, record).await.unwrap(): Ok adds the row;
\* Err panics the spawned task, and unwinding drops the guard.
WorkerInsert(u) ==
    /\ wpc[u] = "locked"
    /\ lock = Holder("worker", u)
    /\ \E ok \in BOOLEAN :
          IF ok
          THEN /\ store' = [store EXCEPT ![u] = Append(@, data[u][wi[u]])]
               /\ wpc' = [wpc EXCEPT ![u] = "inserted"]
               /\ lock' = lock
          ELSE /\ store' = store
               /\ wpc' = [wpc EXCEPT ![u] = "panicked"]
               /\ lock' = Free
    /\ UNCHANGED <<task, upc, parsed, data, jid, wi, ppc, pid, pafter, first, last, rest>>

\* A slip that takes the guard once, before the loop: the worker goes on to
\* the next record without releasing.
MutWorkerMarkKeep(u) ==
    /\ wpc[u] = "inserted"
    /\ lock = Holder("worker", u)
    /\ LET t == task[jid[u]]
           next == t.status.num + 1
       IN  IF t.status.tag = "Padding" /\ next >= t.total
           THEN /\ task' = [task EXCEPT ![jid[u]].status = Done]
                /\ wpc' = [wpc EXCEPT ![u] = "exit"]
                /\ wi' = wi
                /\ lock' = Free
           ELSE /\ task' = IF t.status.tag = "Padding"
                           THEN [task EXCEPT ![jid[u]].status = Padding(next)] ELSE task
                /\ wpc' = [wpc EXCEPT ![u] = IF wi[u] < Len(data[u]) THEN "locked" ELSE "exit"]
                /\ wi' = [wi EXCEPT ![u] = IF wi[u] < Len(data[u]) THEN wi[u] + 1 ELSE wi[u]]
                /\ lock' = IF wi[u] < Len(data[u]) THEN lock ELSE Free
    /\ UNCHANGED <<store, upc, parsed, data, jid, ppc, pid, pafter, first, last, rest>>

\* let task = state.task.get_mut(&id).unwrap(); match task.status { ... }
\* and the drop of `state` at the end of the iteration or at the break.
WorkerMark(u) ==
    /\ wpc[u] = "inserted"
    /\ lock = Holder("worker", u)
    /\ LET t == task[jid[u]]
           next == t.status.num + 1
       IN  IF t.status.tag = "Padding"
           THEN IF next >= t.total
                THEN /\ task' = [task EXCEPT ![jid[u]].status = Done]
                     /\ wpc' = [wpc EXCEPT ![u] = "exit"]
                ELSE /\ task' = [task EXCEPT ![jid[u]].status = Padding(next)]
                     /\ wpc' = [wpc EXCEPT ![u] = "loop"]
           ELSE /\ task' = task
                /\ wpc' = [wpc EXCEPT ![u] = "loop"]
    /\ lock' = Free
    /\ UNCHANGED <<store, upc, parsed, data, jid, wi, ppc, pid, pafter, first, last, rest>>

----------------------------------------------------------------------------
\* show_task_handler

\* A request GET /api/task/:task_id arrives.
PollStart(id) ==
    /\ ppc \in {"idle", "responded", "panicked"}
    /\ Admitted("show_task_handler", cred)
    /\ ppc' = "waiting"
    /\ pid' = id
    /\ pafter' = (\E u \in Uploads : jid[u] = id /\ upc[u] = "returned")
    /\ UNCHANGED <<lock, task, store, upc, parsed, data, jid, wpc, wi, first, last, rest>>

\* let taks_map = &app_state.lock().await.task; the guard lives to the end
\* of the handler.
PollLock ==
    /\ ppc = "waiting"
    /\ lock = Free
    /\ lock' = Holder("poll", 0)
    /\ ppc' = "locked"
    /\ UNCHANGED <<task, store, upc, parsed, data, jid, wpc, wi, pid, pafter, first, last, rest>>

\* taks_map.get(&task_id).unwrap() and the TaskBody: a missing key panics
\* (unwinding drops the guard), a present one is answered.
PollRead ==
    /\ ppc = "locked"
    /\ lock = Holder("poll", 0)
    /\ IF task[pid] = NoTask
       THEN /\ ppc' = "panicked"
            /\ UNCHANGED <<first, last>>
       ELSE LET r == [after |-> pafter, body |-> TaskBodyOf(task[pid])]
            IN  /\ ppc' = "responded"
                /\ last' = [last EXCEPT ![pid] = Some(r)]
                /\ first' = IF pafter /\ first[pid] = None
                             THEN [first EXCEPT ![pid] = Some(r)] ELSE first
    /\ lock' = Free
    /\ pid' = NoId
    /\ pafter' = FALSE
    /\ UNCHANGED <<task, store, upc, parsed, data, jid, wpc, wi, rest>>

----------------------------------------------------------------------------
\* register_handler and login_handler. Both bind `pool` to a field of the
\* guard (let pool = &app_state.lock().await.pool), so the guard lives to
\* the end of the handler.

\* The variables of the import core other than the lock.
coreData == <<task, store, upc, parsed, data, jid, wpc, wi, ppc, pid, pafter, first, last>>

\* register_handler: app_state.lock().await
RegisterLock ==
    /\ rpc = "idle"
    /\ lock = Free
    /\ lock' = Holder("register", 0)
    /\ rpc' = "locked"
    /\ UNCHANGED <<coreData, cred, users, lpc, sheet, recs>>

\* SELECT EXISTS(...).fetch_one(pool).await?: a store error or an existing
\* username returns Err and drops the guard.
RegisterExists(name) ==
    /\ rpc = "locked"
    /\ lock = Holder("register", 0)
    /\ \E dbok \in BOOLEAN :
          IF dbok /\ name \notin users
          THEN /\ rpc' = "checked"
               /\ lock' = lock
          ELSE /\ rpc' = "idle"
               /\ lock' = Free
    /\ UNCHANGED <<coreData, cred, users, lpc, sheet, recs>>

\* SaltString::generate and Argon2::default().hash_password(...)?, with the
\* guard still alive.
RegisterHash ==
    /\ rpc = "checked"
    /\ lock = Holder("register", 0)
    /\ \E hashok \in BOOLEAN :
          IF hashok
          THEN /\ rpc' = "hashed"
               /\ lock' = lock
          ELSE /\ rpc' = "idle"
               /\ lock' = Free
    /\ UNCHANGED <<coreData, cred, users, lpc, sheet, recs>>

\* INSERT INTO user ... .execute(pool).await? and the return, which drops
\* the guard.
RegisterInsert(name) ==
    /\ rpc = "hashed"
    /\ lock = Holder("register", 0)
    /\ \E dbok \in BOOLEAN :
          users' = IF dbok THEN users \cup {name} ELSE users
    /\ rpc' = "idle"
    /\ lock' = Free
    /\ UNCHANGED <<coreData, cred, lpc, sheet, recs>>

\* login_handler: body.validate() passed; app_state.lock().await
LoginLock ==
    /\ lpc = "idle"
    /\ lock = Free
    /\ lock' = Holder("login", 0)
    /\ lpc' = "locked"
    /\ UNCHANGED <<coreData, cred, users, rpc, sheet, recs>>

\* select ... .fetch_optional(pool): a store error or no such user returns
\* WrongCredentials and drops the guard.
LoginFetch(name) ==
    /\ lpc = "locked"
    /\ lock = Holder("login", 0)
    /\ \E dbok \in BOOLEAN :
          IF dbok /\ name \in users
          THEN /\ lpc' = "fetched"
               /\ lock' = lock
          ELSE /\ lpc' = "idle"
               /\ lock' = Free
    /\ UNCHANGED <<coreData, cred, users, rpc, sheet, recs>>

\* verify_password, encode and the return, which drops the guard.
LoginVerify ==
    /\ lpc = "fetched"
    /\ lock = Holder("login", 0)
    /\ lpc' = "idle"
    /\ lock' = Free
    /\ UNCHANGED <<coreData, cred, users, rpc, sheet, recs>>

----------------------------------------------------------------------------
Next ==
    \/ \E u \in Uploads : UploadParse(u)
    \/ \E u \in Uploads : BuildLock(u)
    \/ \E u \in Uploads : BuildInsert(u)
    \/ \E u \in Uploads : UploadSpawn(u)
    \/ \E u \in Uploads : UploadReturn(u)
    \/ \E u \in Uploads : WorkerLock(u)
    \/ \E u \in Uploads : WorkerEnd(u)
    \/ \E u \in Uploads : WorkerInsert(u)
    \/ \E u \in Uploads : WorkerMark(u)
    \/ \E id \in JobIds : PollStart(id)
    \/ PollLock
    \/ PollRead
    \/ RegisterLock
    \/ \E name \in Usernames : RegisterExists(name)
    \/ RegisterHash
    \/ \E name \in Usernames : RegisterInsert(name)
    \/ LoginLock
    \/ \E name \in Usernames : LoginFetch(name)
    \/ LoginVerify

Spec == Init /\ [][Next]_vars

----------------------------------------------------------------------------
TypeOK ==
    /\ lock \in [kind : {"free", "build", "worker", "poll", "register", "login"},
                who : 0..MaxUploads]
    /\ upc \in [Uploads -> {"idle", "failed", "panicked", "parsed", "building",
                            "built", "spawned", "returned"}]
    /\ wpc \in [Uploads -> {"none", "loop", "locked", "inserted", "exit", "panicked"}]
    /\ \A u \in Uploads : wi[u] \in 0..Len(data[u])
    /\ ppc \in {"idle", "waiting", "locked", "responded", "panicked"}




----------------------------------------------------------------------------
\* Helpers of the properties

\* The uploads whose job is in the task map.
WithJob == {u \in Uploads : jid[u] # NoId}
\* The Task of upload u's job.
JobOf(u) == task[jid[u]]
\* The upload that created job id.
OwnerOf(id) == CHOOSE u \in Uploads : jid[u] = id
\* Response a may be followed by response b of the same job.
PollLeq(a, b) ==
    /\ a.status = "done" => b.status = "done"
    /\ a.status = "error" => b.status = "error" /\ b.err_msg = a.err_msg
    /\ (a.status = "padding" /\ b.status = "padding") => a.progress[1] <= b.progress[1]

----------------------------------------------------------------------------
\* C1: a job whose worker has made every insert successfully and has run to
\* its end is Done (a worker that has ended never touches the job again, so
\* a job it leaves Pending is never Done).
C1_DoneWhenWorkerEnds ==
    \A u \in Uploads : wpc[u] = "exit" => JobOf(u).status = Done

\* C2: when an insert of a job has failed, the job is Failed with a
\* non-empty reason.
C2_FailedOnInsertError ==
    \A u \in Uploads :
        wpc[u] = "panicked" => JobOf(u).status.tag = "Err" /\ JobOf(u).status.err # ""

\* C3: a poll of an id that is not in the task map never ends in a panic of
\* the handler.
C3_UnknownIdNoPanic == ppc # "panicked"

\* C4 (as stated): the first poll issued after the upload returned reports
\* Pending(processed) with 0 <= processed <= N and total = N.
C4_FirstPollPending ==
    \A id \in JobIds :
        first[id] # None =>
            LET b == first[id][1].body
                n == Len(data[OwnerOf(id)])
            IN  /\ b.total = n
                /\ b.status = "padding"
                /\ b.progress # None
                /\ b.progress[1] \in 0..n

\* C4 (amended): every poll issued after the upload returned reports
\* total = N and either Pending(processed) with 0 <= processed <= N, or Done
\* when all N records of the job are in the store.
C4_PollAfterReturn ==
    \A id \in JobIds :
        (last[id] # None /\ last[id][1].after) =>
            LET b == last[id][1].body
                n == Len(data[OwnerOf(id)])
            IN  /\ b.total = n
                /\ b.status \in {"padding", "done"}
                /\ b.status = "padding" => b.progress # None /\ b.progress[1] \in 0..n
                /\ b.status = "done" => Len(RowsOf(store, OwnerOf(id))) = n

\* A poll issued after the upload returned saw the job Pending with one
\* record done.
C4_Witness ==
    \E id \in JobIds :
        /\ last[id] # None
        /\ last[id][1].after
        /\ last[id][1].body.status = "padding"
        /\ last[id][1].body.progress = Some(1)

\* C5: from each answered poll of a job to the next one of the same job the
\* reported progress does not decrease and a terminal status is not left.
C5_PollsMonotonic ==
    [][\A id \in JobIds :
          (last[id] # None /\ last'[id] # None) =>
              PollLeq(last[id][1].body, last'[id][1].body)]_vars

\* Of the polls of one job an earlier one reported progress 0 and the latest
\* reports progress 1.
C5_Witness ==
    \E id \in JobIds :
        /\ first[id] # None
        /\ last[id] # None
        /\ first[id][1].body.progress = Some(0)
        /\ last[id][1].body.progress = Some(1)

\* C6: while its worker does not hold the lock, a job is Done exactly when
\* the number of its records in the store equals its total.
C6_DoneIffAllInserted ==
    \A u \in WithJob :
        lock # Holder("worker", u) =>
            (JobOf(u).status = Done <=> Len(RowsOf(store, u)) = JobOf(u).total)

\* C7: while its worker does not hold the lock, the rows of a job in the
\* store are exactly the first p records of its parsed sequence in their
\* order, p being processed when Pending(processed) and total when Done.
C7_StoreIsPrefix ==
    \A u \in WithJob :
        (lock # Holder("worker", u) /\ JobOf(u).status.tag \in {"Padding", "Done"}) =>
            LET p == IF JobOf(u).status.tag = "Padding"
                     THEN JobOf(u).status.num ELSE JobOf(u).total
            IN  /\ p <= Len(data[u])
                /\ RowsOf(store, u) = SubSeq(data[u], 1, p)

\* A job of two records is Done with both rows stored while another job's
\* rows are in the store as well.
C7_Witness ==
    \E u, v \in WithJob :
        /\ u # v
        /\ JobOf(u).status = Done
        /\ RowsOf(store, u) = <<1, 2>>
        /\ RowsOf(store, v) # <<>>
        /\ lock = Free

\* C8: an upload whose parse failed has no job, no worker and no row in the
\* store, and the task map holds exactly the jobs of the uploads that parsed.
C8_ParseFailureNoEffect ==
    /\ \A u \in Uploads :
          parsed[u] \in ParseFailures =>
              /\ jid[u] = NoId
              /\ wpc[u] = "none"
              /\ RowsOf(store, u) = <<>>
    /\ Cardinality({i \in JobIds : task[i] # NoTask})
          = Cardinality({u \in Uploads : parsed[u] = "ok" /\ jid[u] # NoId})

\* One upload failed to parse after another upload's job was created.
C8_Witness ==
    \E u, v \in Uploads :
        /\ parsed[u] \in ParseFailures
        /\ upc[u] \in {"failed", "panicked"}
        /\ jid[v] # NoId

\* C9: after an insert of job A has failed, the lock is not left with A's
\* worker, and every other job whose worker has made all its inserts and
\* ended is Done.
C9_FailureIsJobScoped ==
    \A a \in Uploads :
        wpc[a] = "panicked" =>
            /\ lock # Holder("worker", a)
            /\ \A b \in Uploads \ {a} : wpc[b] = "exit" => JobOf(b).status = Done

\* C10 (as stated): a record of a job is in the store only after the
\* upload_handler call that created the job has returned.
C10_ReturnBeforeFirstInsert ==
    \A u \in Uploads : RowsOf(store, u) # <<>> => upc[u] = "returned"

\* C10 (amended): once the worker is spawned the handler's return is enabled
\* whatever the worker does, and a record of a job is in the store only
\* after the job is in the task map and its worker is spawned.
C10_ReturnDoesNotWait ==
    \A u \in Uploads :
        /\ upc[u] = "spawned" => ENABLED UploadReturn(u)
        /\ RowsOf(store, u) # <<>> =>
              /\ upc[u] \in {"spawned", "returned"}
              /\ jid[u] # NoId
              /\ task[jid[u]] # NoTask

\* The handler has not yet returned and its worker is in the middle of the
\* import, a record already stored.
C10_Witness ==
    \E u \in Uploads :
        /\ upc[u] = "spawned"
        /\ wpc[u] = "loop"
        /\ RowsOf(store, u) = <<1>>


\* The units of work that are between taking the lock and dropping the guard.
Holding ==
    {Holder("build", u) : u \in {v \in Uploads : upc[v] = "building"}}
    \cup {Holder("worker", u) : u \in {v \in Uploads : wpc[v] \in {"locked", "inserted"}}}
    \cup (IF ppc = "locked" THEN {Holder("poll", 0)} ELSE {})
    \cup (IF rpc \in {"locked", "checked", "hashed"} THEN {Holder("register", 0)} ELSE {})
    \cup (IF lpc \in {"locked", "fetched"} THEN {Holder("login", 0)} ELSE {})

\* The number of records the job of upload u counts as processed.
Processed(u) ==
    IF JobOf(u).status.tag = "Padding" THEN JobOf(u).status.num ELSE JobOf(u).total

\* C11: at most one unit of work holds the lock, and it is the one the lock
\* names; the task map, the store and the poll responses change only in a
\* step of the unit that holds the lock; and outside the window between a
\* worker's insert and its progress update, each job's processed count is
\* the number of rows inserted for that job.
C11_MutualExclusion ==
    /\ [](/\ Cardinality(Holding) <= 1
          /\ Holding = (IF lock = Free THEN {} ELSE {lock})
          /\ \A u \in WithJob :
                (wpc[u] # "inserted" /\ JobOf(u).status.tag \in {"Padding", "Done"}) =>
                    Processed(u) = Len(RowsOf(store, u)))
    /\ [][(task' # task \/ store' # store \/ last' # last) => lock \in Holding]_vars

\* Two workers are in flight, each with a row stored and more to insert: one
\* holds the lock, the other waits for it.
C11_Witness ==
    \E u, v \in Uploads :
        /\ u # v
        /\ lock = Holder("worker", u)
        /\ wpc[u] = "locked"
        /\ Len(RowsOf(store, u)) = 1
        /\ wpc[v] = "loop"
        /\ wi[v] < Len(data[v])
        /\ Len(RowsOf(store, v)) = 1


\* Tasks in each of the three statuses.
SampleTasks ==
    [title : {"import"},
     total : 0..MaxRecords,
     status : {Padding(k) : k \in 0..MaxRecords} \cup {Done, Err("insert failed")}]

\* b is the snapshot the interface prescribes for task t.
ExactSnapshot(t, b) ==
    /\ b.title = t.title
    /\ b.total = t.total
    /\ b.status \in {"padding", "done", "error"}
    /\ t.status.tag = "Padding" =>
          b.status = "padding" /\ b.progress = Some(t.status.num) /\ b.err_msg = None
    /\ t.status.tag = "Done" =>
          b.status = "done" /\ b.progress = None /\ b.err_msg = None
    /\ t.status.tag = "Err" =>
          b.status = "error" /\ b.progress = None /\ b.err_msg = Some(t.status.err)

\* C12: the body show_task_handler answers with is the exact snapshot of the
\* Task it read under the lock, and the mapping from a Task to its body is
\* exact for Pending, Done and Failed tasks alike.
C12_SnapshotExact ==
    /\ [](\A t \in SampleTasks : ExactSnapshot(t, TaskBodyOf(t)))
    /\ [][(ppc = "locked" /\ ppc' = "responded") =>
              ExactSnapshot(task[pid], last'[pid][1].body)]_vars

\* A poll has just been answered for a job that is Done.
C12_Witness ==
    /\ ppc = "responded"
    /\ \E id \in JobIds :
          /\ last[id] # None
          /\ last[id][1].body.status = "done"
          /\ task[id].status = Done

-----------------------------------------------------------------------------
\* The same program called by a client with any kind of credential.
InitAnyClient ==
    /\ lock = Free
    /\ task = [i \in JobIds |-> NoTask]
    /\ store = [u \in Uploads |-> <<>>]
    /\ upc = [u \in Uploads |-> "idle"]
    /\ parsed = [u \in Uploads |-> "none"]
    /\ data = [u \in Uploads |-> <<>>]
    /\ jid = [u \in Uploads |-> NoId]
    /\ wpc = [u \in Uploads |-> "none"]
    /\ wi = [u \in Uploads |-> 0]
    /\ ppc = "idle"
    /\ pid = NoId
    /\ pafter = FALSE
    /\ first = [i \in JobIds |-> None]
    /\ last = [i \in JobIds |-> None]
    /\ cred \in Creds
    /\ users = {}
    /\ rpc = "idle"
    /\ lpc = "idle"
    /\ sheet = <<>>
    /\ recs = None

SpecAnyClient == InitAnyClient /\ [][Next]_vars

\* C13: a client without a valid bearer credential never gets a job created,
\* a worker launched, a record inserted or a job snapshot returned.
C13_NoCoreWithoutCredential ==
    cred # "valid" =>
        /\ \A id \in JobIds : task[id] = NoTask /\ last[id] = None
        /\ \A u \in Uploads : wpc[u] = "none" /\ RowsOf(store, u) = <<>>

-----------------------------------------------------------------------------
\* C14: every job's total is the number of records parsed for it and never
\* changes, a job enters the registry as Padding(0), and a job in
\* Padding(processed) has 0 <= processed <= total.
C14_JobInvariants ==
    /\ [](\A u \in WithJob :
            /\ JobOf(u).total = Len(data[u])
            /\ JobOf(u).status.tag = "Padding" =>
                  (0 <= JobOf(u).status.num /\ JobOf(u).status.num <= JobOf(u).total))
    /\ [][\A id \in JobIds :
            /\ (task[id] = NoTask /\ task'[id] # NoTask) => task'[id].status = Padding(0)
            /\ task[id] # NoTask => (task'[id] # NoTask /\ task'[id].total = task[id].total)]_vars

\* A job of two records whose worker has marked the first one.
C14_Witness ==
    \E u \in WithJob :
        /\ JobOf(u).total = 2
        /\ JobOf(u).status = Padding(1)
        /\ wpc[u] = "loop"

-----------------------------------------------------------------------------
\* The Record Parser (file.rs, model.rs), on its own.

\* Largest number of data rows in a sheet given to the parser.
MaxRows == 2

\* Cells of a worksheet: empty, a number, a text (its characters), a cell error.
Empty == [kind |-> "Empty", num |-> 0, chars |-> <<>>]
Float(n) == [kind |-> "Float", num |-> n, chars |-> <<>>]
Text(cs) == [kind |-> "String", num |-> 0, chars |-> cs]
CellError == [kind |-> "Error", num |-> 0, chars |-> <<>>]

Ok(v) == [ok |-> TRUE, val |-> v]
Failed == [ok |-> FALSE, val |-> 0]

DigitVal == [c \in {"0", "1", "2", "3", "4", "5", "6", "7", "8", "9"} |->
               CASE c = "0" -> 0 [] c = "1" -> 1 [] c = "2" -> 2 [] c = "3" -> 3
                 [] c = "4" -> 4 [] c = "5" -> 5 [] c = "6" -> 6 [] c = "7" -> 7
                 [] c = "8" -> 8 [] c = "9" -> 9]

RECURSIVE DecimalOf(_)
DecimalOf(cs) ==
    IF cs = <<>> THEN 0
    ELSE 10 * DecimalOf(SubSeq(cs, 1, Len(cs) - 1)) + DigitVal[cs[Len(cs)]]

\* str::parse::<u8>: decimal digits whose value fits in eight bits.
ParseU8(cs) ==
    IF cs # <<>> /\ (\A i \in 1..Len(cs) : cs[i] \in DOMAIN DigitVal) /\ DecimalOf(cs) <= 255
    THEN Ok(DecimalOf(cs)) ELSE Failed

\* `f64 as u8`: the cast saturates at the ends of the range.
F64AsU8(n) == IF n < 0 THEN 0 ELSE IF n > 255 THEN 255 ELSE n

\* u8::deserialize on the deserializer of a cell: a number is cast, a text is
\* parsed, any other cell is an error.
U8Deserialize(c) ==
    CASE c.kind = "Float" -> Ok(F64AsU8(c.num))
      [] c.kind = "String" -> ParseU8(c.chars)
      [] OTHER -> Failed

\* deserialize_as_u8_or_none
deserialize_as_u8_or_none(c) ==
    LET number == U8Deserialize(c)
    IN  IF number.ok THEN Ok(Some(number.val)) ELSE Ok(None)

\* Option<String>::deserialize on the deserializer of a cell.
OptionStringDeserialize(c) ==
    CASE c.kind = "Empty" -> Ok(None)
      [] c.kind = "String" -> Ok(Some(c.chars))
      [] OTHER -> Failed

\* The derived Deserialize of Record, on the fields domain_name, age,
\* order_no, score and title (the other fields are handled like title).
RecordDeserialize(row) ==
    LET age == deserialize_as_u8_or_none(row.age)
        order_no == deserialize_as_u8_or_none(row.order_no)
        score == deserialize_as_u8_or_none(row.score)
        title == OptionStringDeserialize(row.title)
    IN  IF age.ok /\ order_no.ok /\ score.ok /\ title.ok
        THEN Ok([domain_name |-> row.domain_name.chars,
                 age |-> age.val, order_no |-> order_no.val,
                 score |-> score.val, title |-> title.val])
        ELSE Failed

\* iter.map(|record| record.unwrap()).collect(): one Record per row in row
\* order; a row that does not deserialize panics.
excel_to_record(rows) ==
    IF \A i \in 1..Len(rows) : RecordDeserialize(rows[i]).ok
    THEN Ok([i \in 1..Len(rows) |-> RecordDeserialize(rows[i]).val])
    ELSE [ok |-> FALSE, val |-> "panic"]

NumCells == {Empty, Float(7), Float(300), Text(<<"7">>), Text(<<"3", "0", "0">>), Text(<<"a">>)}
TitleCells == {Empty, Text(<<"t">>), CellError}
Rows == [domain_name : {Text(<<"d">>)}, age : NumCells, order_no : NumCells,
         score : NumCells, title : TitleCells]
Sheets == UNION {[1..n -> Rows] : n \in 0..MaxRows}

InitParser ==
    /\ lock = Free
    /\ task = [i \in JobIds |-> NoTask]
    /\ store = [u \in Uploads |-> <<>>]
    /\ upc = [u \in Uploads |-> "idle"]
    /\ parsed = [u \in Uploads |-> "none"]
    /\ data = [u \in Uploads |-> <<>>]
    /\ jid = [u \in Uploads |-> NoId]
    /\ wpc = [u \in Uploads |-> "none"]
    /\ wi = [u \in Uploads |-> 0]
    /\ ppc = "idle"
    /\ pid = NoId
    /\ pafter = FALSE
    /\ first = [i \in JobIds |-> None]
    /\ last = [i \in JobIds |-> None]
    /\ cred = "valid"
    /\ users = {}
    /\ rpc = "idle"
    /\ lpc = "idle"
    /\ sheet \in Sheets
    /\ recs = None

\* One call of excel_to_record on the sheet.
Parse ==
    /\ recs = None
    /\ recs' = Some(excel_to_record(sheet))
    /\ UNCHANGED <<lock, task, store, upc, parsed, data, jid, wpc, wi, ppc, pid, pafter,
                   first, last, cred, users, rpc, lpc, sheet>>

NextParser == Parse

SpecParser == InitParser /\ [][NextParser]_vars

\* The cell holds a value of type u8.
ValidU8(c) ==
    \/ c.kind = "Float" /\ 0 <= c.num /\ c.num <= 255
    \/ c.kind = "String" /\ ParseU8(c.chars).ok

\* Row `row` came out as record `rec`, with the numeric field f absent.
Degraded(row, rec, f) ==
    CASE f = "age" -> rec.age = None
      [] f = "order_no" -> rec.order_no = None
      [] f = "score" -> rec.score = None

NumericFields == {"age", "order_no", "score"}

\* C15: a cell of age, order_no or score that is not a valid value of its type
\* makes that field None and nothing else: the row is not dropped, its other
\* fields are what their own cells say, and the output has one Record per
\* row in row order.
C15_BadNumericCellIsAbsent ==
    recs # None =>
        LET out == recs[1]
            rowsOk == \A i \in 1..Len(sheet) : sheet[i].title.kind # "Error"
        IN  /\ out.ok <=> rowsOk
            /\ out.ok =>
                 /\ Len(out.val) = Len(sheet)
                 /\ \A i \in 1..Len(sheet) :
                      /\ out.val[i].domain_name = sheet[i].domain_name.chars
                      /\ out.val[i].title = OptionStringDeserialize(sheet[i].title).val
                      /\ \A f \in NumericFields :
                           ~ValidU8(sheet[i][f]) => Degraded(sheet[i], out.val[i], f)

-----------------------------------------------------------------------------
\* C16: a worker holds the lock for one record's insert and status update
\* only: it holds it exactly from taking a record to marking it, each
\* acquisition covers at most one insert, the lock is released before the
\* next record is taken, and a free lock can be taken by a waiting poll or by
\* any worker with a record left.
C16_LockPerRecord ==
    /\ [](\A u \in Uploads :
            /\ lock = Holder("worker", u) <=> wpc[u] \in {"locked", "inserted"}
            /\ wpc[u] = "inserted" => Len(RowsOf(store, u)) = wi[u])
    /\ [][\A u \in Uploads :
            /\ RowsOf(store', u) # RowsOf(store, u) =>
                  /\ wpc[u] = "locked" /\ wpc'[u] = "inserted"
                  /\ Len(RowsOf(store', u)) = Len(RowsOf(store, u)) + 1
            /\ (wpc[u] = "inserted" /\ wpc'[u] # "inserted") => lock' = Free
            /\ wpc'[u] = "locked" => (wpc[u] \in {"loop", "locked"} /\ lock \in {Free, lock'})
         ]_vars
    /\ [](lock = Free =>
            /\ ppc = "waiting" => ENABLED PollLock
            /\ \A v \in Uploads :
                  (wpc[v] = "loop" /\ wi[v] < Len(data[v])) => ENABLED WorkerLock(v))

\* Between the two inserts of one job a poll holds the lock while another
\* job's worker has already put a row in.
C16_Witness ==
    \E u, v \in Uploads :
        /\ u # v
        /\ Len(data[u]) = 2 /\ Len(RowsOf(store, u)) = 1 /\ wpc[u] = "loop"
        /\ Len(RowsOf(store, v)) = 1
        /\ lock = Holder("poll", 0)

-----------------------------------------------------------------------------
\* The ids whose registry entry a step changes.
Touched == {i \in JobIds : task'[i] # task[i]}

\* C17: the registry only grows and each operation touches its own part of
\* it: an entry is never removed and its title and total never change, a
\* step changes at most one entry, a new entry is put by build_task of one
\* upload under an id that had none, an existing entry is changed by the
\* worker of that job alone, and a poll changes neither registry nor store.
C17_RegistryFrame ==
    [][/\ Cardinality(Touched) <= 1
       /\ \A id \in JobIds :
            /\ task[id] # NoTask =>
                  /\ task'[id] # NoTask
                  /\ task'[id].title = task[id].title
                  /\ task'[id].total = task[id].total
            /\ (id \in Touched /\ task[id] = NoTask) =>
                  \E u \in Uploads :
                      /\ upc[u] = "building" /\ upc'[u] = "built"
                      /\ jid'[u] = id
                      /\ store' = store
            /\ (id \in Touched /\ task[id] # NoTask) =>
                  \E u \in Uploads :
                      /\ jid[u] = id
                      /\ lock = Holder("worker", u)
                      /\ wpc[u] = "inserted"
       /\ ppc' # ppc => (task' = task /\ store' = store)
      ]_vars

\* Two jobs are in the registry, one already moved on by its worker, and a
\* poll has been answered.
C17_Witness ==
    /\ \A id \in JobIds : task[id] # NoTask
    /\ \E id \in JobIds : task[id].status # Padding(0)
    /\ \E id \in JobIds : last[id] # None

-----------------------------------------------------------------------------
\* C18: whoever holds the lock is before or within its single store or
\* registry operation: it has not gone on, still holding, to password hashing
\* or verification or to a second store round-trip.
C18_LockForOneOperationOnly ==
    /\ lock = Holder("register", 0) => rpc = "locked"
    /\ lock = Holder("login", 0) => lpc = "locked"
    /\ \A u \in Uploads :
          /\ lock = Holder("build", u) => upc[u] = "building"
          /\ lock = Holder("worker", u) => wpc[u] \in {"locked", "inserted"}
    /\ lock = Holder("poll", 0) => ppc = "locked"

-----------------------------------------------------------------------------
\* C20: a job never gets more inserts than its total, and whenever its
\* worker is inside an iteration (holding the lock, before or after the
\* insert) the job is still Padding, so every insert is for a Padding job
\* with inserts left and the Done and Err arms of the match are never taken.
C20_InsertsWithinTotal ==
    /\ [](\A u \in WithJob :
            /\ Len(RowsOf(store, u)) <= JobOf(u).total
            /\ wpc[u] \in {"locked", "inserted"} => JobOf(u).status.tag = "Padding"
            /\ wpc[u] = "locked" => Len(RowsOf(store, u)) < JobOf(u).total)
    /\ [][\A u \in Uploads :
            RowsOf(store', u) # RowsOf(store, u) =>
                /\ u \in WithJob
                /\ JobOf(u).status.tag = "Padding"
                /\ Len(RowsOf(store, u)) < JobOf(u).total]_vars

\* A job of two records is Done with both rows in and its worker gone.
C20_Witness ==
    \E u \in WithJob :
        /\ JobOf(u).total = 2
        /\ JobOf(u).status = Done
        /\ Len(RowsOf(store, u)) = 2
        /\ wpc[u] = "exit"

-----------------------------------------------------------------------------
\* Liveness. The tokio runtime polls every spawned task and every handler
\* that can make progress (weak fairness of their steps), and
\* tokio::sync::Mutex hands the lock to its waiters in FIFO order, so a
\* waiter is not passed over for ever (strong fairness of the acquisitions).
\* Requests arrive or not: no fairness on UploadParse, PollStart,
\* RegisterLock and LoginLock.
Fairness ==
    /\ \A u \in Uploads :
          /\ SF_vars(BuildLock(u))
          /\ WF_vars(BuildInsert(u))
          /\ WF_vars(UploadSpawn(u))
          /\ WF_vars(UploadReturn(u))
          /\ SF_vars(WorkerLock(u))
          /\ WF_vars(WorkerEnd(u))
          /\ WF_vars(WorkerInsert(u))
          /\ WF_vars(WorkerMark(u))
    /\ SF_vars(PollLock)
    /\ WF_vars(PollRead)
    /\ WF_vars(\E name \in Usernames : RegisterExists(name))
    /\ WF_vars(RegisterHash)
    /\ WF_vars(\E name \in Usernames : RegisterInsert(name))
    /\ WF_vars(\E name \in Usernames : LoginFetch(name))
    /\ WF_vars(LoginVerify)

\* The fair runs start later than Init, to keep the liveness check small:
\* the uploads above FairUploads have already been answered, each with a job
\* of one record under its own id whose worker has not taken its record yet,
\* and no poll has been made. The uploads up to FairUploads are still to
\* come.
FairUploads == 1

InitFair ==
    /\ lock = Free
    /\ task = [i \in JobIds |-> IF i <= MaxUploads - FairUploads
                                 THEN TaskNew("import", 1) ELSE NoTask]
    /\ store = [u \in Uploads |-> <<>>]
    /\ upc = [u \in Uploads |-> IF u <= FairUploads THEN "idle" ELSE "returned"]
    /\ parsed = [u \in Uploads |-> IF u <= FairUploads THEN "none" ELSE "ok"]
    /\ data = [u \in Uploads |-> IF u <= FairUploads THEN <<>> ELSE Records(1)]
    /\ jid = [u \in Uploads |-> IF u <= FairUploads THEN NoId ELSE u - FairUploads]
    /\ wpc = [u \in Uploads |-> IF u <= FairUploads THEN "none" ELSE "loop"]
    /\ wi = [u \in Uploads |-> 0]
    /\ ppc = "idle"
    /\ pid = NoId
    /\ pafter = FALSE
    /\ first = [i \in JobIds |-> None]
    /\ last = [i \in JobIds |-> None]
    /\ cred = "valid"
    /\ users = {}
    /\ rpc = "idle"
    /\ lpc = "idle"
    /\ sheet = <<>>
    /\ recs = None

FairSpec == InitFair /\ [][Next]_vars /\ Fairness

Holders ==
    {Holder("build", u) : u \in Uploads} \cup {Holder("worker", u) : u \in Uploads}
    \cup {Holder("poll", 0), Holder("register", 0), Holder("login", 0)}

\* C19: nobody asks for the lock while holding it, every acquisition is
\* released (also by a worker whose insert fails and a poll of an unknown
\* id), and whoever waits for the lock gets it.
C19_DeadlockFree ==
    /\ [](\A u \in Uploads :
            /\ upc[u] \in {"parsed", "built", "spawned", "returned"} => lock # Holder("build", u)
            /\ wpc[u] \in {"loop", "exit", "panicked"} => lock # Holder("worker", u))
    /\ [](ppc \in {"waiting", "responded", "panicked"} => lock # Holder("poll", 0))
    /\ \A h \in Holders : (lock = h) ~> (lock = Free)
    /\ \A u \in Uploads : (upc[u] = "parsed") ~> (lock = Holder("build", u))
    /\ \A u \in Uploads :
          (wpc[u] = "loop" /\ wi[u] < Len(data[u])) ~> (lock = Holder("worker", u))
    /\ (ppc = "waiting") ~> (lock = Holder("poll", 0))

\* A poll holds the lock after a worker has ended on a failed insert.
C19_Witness ==
    /\ lock = Holder("poll", 0)
    /\ \E u \in Uploads : wpc[u] = "panicked" /\ wi[u] < Len(data[u])

=============================================================================
